---------------------------- MODULE Spec2Model ----------------------------
(***************************************************************************)
(* Model of package filelock (src/filelock.go, src/errors.go).             *)
(*                                                                         *)
(* Two OS processes link the package.  Each process has its own registry   *)
(* (the package variables files and filesMu); all processes share one      *)
(* file system and the kernel's table of POSIX record locks.  Every        *)
(* goroutine runs the functions of the package statement by statement:     *)
(* the program counter of a goroutine is named after the source line it    *)
(* is about to execute.                                                    *)
(***************************************************************************)
EXTENDS Integers, Sequences, FiniteSets, TLC

(***************************************************************************)
(* Bounds of the model.                                                    *)
(***************************************************************************)
MaxHandles == 2
MaxInodes == 2

(***************************************************************************)
(* Goroutines and the process each of them runs in.                        *)
(***************************************************************************)
Threads == {"t1", "t2", "t3"}
Procs == {1, 2}
ProcOf(t) == IF t = "t3" THEN 2 ELSE 1

(***************************************************************************)
(* File names.  A name is a list of path elements that is either rooted    *)
(* or relative to the working directory Cwd.  The two names below are two  *)
(* spellings of one file.                                                  *)
(***************************************************************************)
Cwd == <<"cwd">>
RelName == [rooted |-> FALSE, elems |-> <<"a">>]
AbsName == [rooted |-> TRUE, elems |-> <<"cwd", "a">>]
Names == {RelName, AbsName}

\* The names each goroutine passes, and the goroutines that call Open.
NamesOf(t) == IF t = "t1" THEN {RelName} ELSE {AbsName}
Readers == {"t1"}
\* The goroutine that holds a lock and writes through its handle, and the
\* goroutine of the other process that calls Acquire.
Holder == "t1"
Waiter == "t3"

\* The kernel's path resolution: the file a name designates.
Resolve(name) == IF name.rooted THEN name.elems ELSE Cwd \o name.elems
FileIds == {Resolve(n) : n \in Names}

\* filepath.Abs without the canonicalization: the registry keyed by the raw name.
AbsRaw(name) == name
\* filepath.Abs(name), filelock.go:49.
Abs(name) == IF name.rooted THEN name ELSE [rooted |-> TRUE, elems |-> Cwd \o name.elems]

(***************************************************************************)
(* Errors.                                                                 *)
(***************************************************************************)
NoErr == "nil"
LockError(e) == "LockError: " \o e
ErrLocked == LockError("locked")
ErrClosed == "file already closed"
\* ctx.Err() of a cancelled context.
Canceled == "context canceled"

(***************************************************************************)
(* Open flags.                                                             *)
(***************************************************************************)
OpenFlags == {}
CreateFlags == {"O_RDWR", "O_CREATE", "O_TRUNC"}

Nil == 0

VARIABLES
  files,     \* files[p]: the registry of process p, a map from key to handle (Nil: placeholder)
  filesMu,   \* filesMu[p]: the goroutine holding the registry mutex of p, or "free"
  dir,       \* dir[file]: the inode linked at that path, 0 when the path does not exist
  content,   \* content[i]: 0 when inode i is empty, 1 when it holds data
  flock,     \* flock[i]: the process owning the write lock on inode i, 0 when unlocked
  nextIno,   \* the next inode number the file system hands out
  handles,   \* the File values constructed so far, indexed by handle number
  th         \* th[t]: the frame of the call goroutine t is executing

vars == <<files, filesMu, dir, content, flock, nextIno, handles, th>>

Inodes == 1..MaxInodes

\* The frame of a call.  ctxDone and tick are the context and the ticker
\* channel of an Acquire call; made, lost, busy, late, pre and retried record
\* what the call did.
Idle == [pc |-> "idle", op |-> "none", name |-> RelName, flag |-> {}, absPath |-> RelName,
         ok |-> FALSE, f2 |-> 0, err |-> NoErr, f |-> Nil, h |-> 0, late |-> FALSE,
         lost |-> 0, made |-> 0, busy |-> FALSE, ctxDone |-> FALSE, tick |-> FALSE,
         pre |-> FALSE, retried |-> FALSE]

\* The frame of a call that has returned: only its results remain, and for
\* a call refused with ErrLocked what it had made and found.
Returned(fr, err, f) ==
  [Idle EXCEPT !.pc = "ret", !.op = fr.op, !.absPath = fr.absPath, !.ok = fr.ok,
               !.f2 = fr.f2, !.h = fr.h, !.late = fr.late, !.lost = fr.lost,
               !.made = IF err = ErrLocked THEN fr.made ELSE 0,
               !.busy = (err = ErrLocked /\ fr.busy), !.ctxDone = fr.ctxDone, !.pre = fr.pre,
               !.retried = fr.retried, !.err = err, !.f = f]

\* An attempt of Acquire whose result goes straight to the caller of Acquire.
ResultToCaller(fr, err, f) == Returned(fr, err, f)
\* The end of OpenFile, Close or Release: the call returns to its caller, an
\* attempt made by Acquire returns into Acquire (filelock.go:102 and 113).
Result(fr, err, f) ==
  IF fr.op = "Acquire"
    THEN [fr EXCEPT !.pc = "A103", !.err = err, !.f = f]
    ELSE Returned(fr, err, f)

\* Go map operations on the registry of one process.
\* The lookup that takes a nil placeholder for no entry.
MapHasNonNil(m, k) == k \in DOMAIN m /\ m[k] # Nil
MapHas(m, k) == k \in DOMAIN m
MapPut(m, k, v) == [x \in (DOMAIN m) \cup {k} |-> IF x = k THEN v ELSE m[x]]
MapDelete(m, k) == [x \in (DOMAIN m) \ {k} |-> m[x]]

\* The file exists with data, or does not exist, when the processes start.
Init ==
  /\ files = [p \in Procs |-> <<>>]
  /\ filesMu = [p \in Procs |-> "free"]
  /\ \E exists \in BOOLEAN :
       /\ dir = [d \in FileIds |-> IF exists THEN 1 ELSE 0]
       /\ content = [i \in Inodes |-> IF exists /\ i = 1 THEN 1 ELSE 0]
       /\ nextIno = IF exists THEN 2 ELSE 1
  /\ flock = [i \in Inodes |-> 0]
  /\ handles = <<>>
  /\ th = [t \in Threads |-> Idle]

(***************************************************************************)
(* The operating system.                                                   *)
(***************************************************************************)

\* os.OpenFile(name, flag, perm): the possible results [err, ino, created].
OsOpenResults(name, flag) ==
  LET d == Resolve(name) IN
  IF dir[d] # 0
    THEN IF {"O_CREATE", "O_EXCL"} \subseteq flag
           THEN {[err |-> "EEXIST", ino |-> 0, created |-> FALSE]}
           ELSE {[err |-> NoErr, ino |-> dir[d], created |-> FALSE]}
    ELSE IF "O_CREATE" \in flag
           THEN IF nextIno <= MaxInodes
                  THEN {[err |-> NoErr, ino |-> nextIno, created |-> TRUE]}
                  ELSE {[err |-> "ENOSPC", ino |-> 0, created |-> FALSE]}
           ELSE {[err |-> "ENOENT", ino |-> 0, created |-> FALSE]}

\* fcntl(fd, F_SETLK, F_WRLCK) by process p on a descriptor of inode i: the
\* possible errno results.  Record locks belong to the process; a write lock
\* needs a descriptor open for writing.
FcntlFlock(p, i, flag) ==
  IF "O_RDWR" \notin flag THEN {"EBADF"}
  ELSE IF flock[i] \notin {0, p} THEN {"EWOULDBLOCK"}
  ELSE {NoErr, "ENOLCK"}

\* close(fd) by process p on inode i drops every record lock p holds on i.
CloseDesc(p, i) == [flock EXCEPT ![i] = IF @ = p THEN 0 ELSE @]

\* posixLock that wraps every errno, EWOULDBLOCK included.
posixLockStrict(errno) ==
  IF errno # NoErr
    THEN [ok |-> FALSE, err |-> LockError(errno)]
    ELSE [ok |-> TRUE, err |-> NoErr]
\* posixLock, filelock.go:147-161: maps the errno to (ok, err).
posixLock(errno) ==
  IF errno # NoErr
    THEN IF errno # "EWOULDBLOCK"
           THEN [ok |-> FALSE, err |-> LockError(errno)]
           ELSE [ok |-> FALSE, err |-> NoErr]
    ELSE [ok |-> TRUE, err |-> NoErr]

(***************************************************************************)
(* Open, Create and direct calls of OpenFile.                              *)
(***************************************************************************)
OpenPcs == {"L54", "L56", "L60", "L69", "L79", "L93", "L95", "D75", "D63", "D65"}
AcquirePcs == {"A103", "A109"}
InFlight == {t \in Threads : th[t].pc \in OpenPcs \cup AcquirePcs}

\* A call may start while its process has a handle left for it.
CanCall(t) ==
  /\ th[t].pc = "idle"
  /\ Cardinality({h \in 1..Len(handles) : handles[h].proc = ProcOf(t)})
       + Cardinality({u \in InFlight : ProcOf(u) = ProcOf(t)}) < MaxHandles

\* The call, and filelock.go:49-52: absPath, err := filepath.Abs(name).  Abs
\* fails only for a relative name, when the working directory cannot be read.
Attempt(t, fr) ==
  /\ \/ th' = [th EXCEPT ![t] = [fr EXCEPT !.absPath = Abs(fr.name), !.pc = "L54"]]
     \/ /\ ~fr.name.rooted
        /\ th' = [th EXCEPT ![t] = Result(fr, "unable to get abs path", Nil)]
  /\ UNCHANGED <<files, filesMu, dir, content, flock, nextIno, handles>>

Enter(t, op, name, flag) ==
  Attempt(t, [Idle EXCEPT !.op = op, !.name = name, !.flag = flag])

\* Open, filelock.go:28-30.
Open(t, name) == CanCall(t) /\ Enter(t, "Open", name, OpenFlags)

\* Create without O_TRUNC.
CreateNoTrunc(t, name) == CanCall(t) /\ Enter(t, "Create", name, CreateFlags \ {"O_TRUNC"})
\* Create, filelock.go:39-41.
Create(t, name) == CanCall(t) /\ Enter(t, "Create", name, CreateFlags)

\* The registry check without the placeholder of line 59.
OpenFile_L54NoReserve(t) ==
  LET p == ProcOf(t) IN
  /\ th[t].pc = "L54"
  /\ filesMu[p] = "free"
  /\ filesMu' = [filesMu EXCEPT ![p] = t]
  /\ IF MapHas(files[p], th[t].absPath)
       THEN th' = [th EXCEPT ![t].ok = TRUE, ![t].pc = "L56"]
       ELSE th' = [th EXCEPT ![t].ok = FALSE, ![t].pc = "L60"]
  /\ UNCHANGED <<files, dir, content, flock, nextIno, handles>>
\* filelock.go:54-59: filesMu.Lock(); the check of files[absPath]; the placeholder.
OpenFile_L54(t) ==
  LET p == ProcOf(t) IN
  /\ th[t].pc = "L54"
  /\ filesMu[p] = "free"
  /\ filesMu' = [filesMu EXCEPT ![p] = t]
  /\ IF MapHas(files[p], th[t].absPath)
       THEN /\ th' = [th EXCEPT ![t].ok = TRUE, ![t].pc = "L56"]
            /\ UNCHANGED files
       ELSE /\ th' = [th EXCEPT ![t].ok = FALSE, ![t].pc = "L60"]
            /\ files' = [files EXCEPT ![p] = MapPut(@, th[t].absPath, Nil)]
  /\ UNCHANGED <<dir, content, flock, nextIno, handles>>

\* filelock.go:56-57: filesMu.Unlock(); return nil, ErrLocked.
OpenFile_L56(t) ==
  /\ th[t].pc = "L56"
  /\ filesMu' = [filesMu EXCEPT ![ProcOf(t)] = "free"]
  /\ th' = [th EXCEPT ![t] = Result(th[t], ErrLocked, Nil)]
  /\ UNCHANGED <<files, dir, content, flock, nextIno, handles>>

\* The reservation that goes on to os.OpenFile with filesMu still held.
OpenFile_L60KeepLock(t) ==
  /\ th[t].pc = "L60"
  /\ th' = [th EXCEPT ![t].pc = "L69"]
  /\ UNCHANGED <<files, filesMu, dir, content, flock, nextIno, handles>>
\* filelock.go:60: filesMu.Unlock() after the placeholder is stored.
OpenFile_L60(t) ==
  /\ th[t].pc = "L60"
  /\ filesMu' = [filesMu EXCEPT ![ProcOf(t)] = "free"]
  /\ th' = [th EXCEPT ![t].pc = "L69"]
  /\ UNCHANGED <<files, dir, content, flock, nextIno, handles>>

\* filelock.go:69-72: f2, err := os.OpenFile(name, flag, perm).  lost records
\* the data an O_TRUNC open discarded, made the inode the open created, busy
\* that the file was locked by another process when it was opened.
OpenFile_L69(t) ==
  /\ th[t].pc = "L69"
  /\ \E r \in OsOpenResults(th[t].name, th[t].flag) :
       IF r.err # NoErr
         THEN /\ th' = [th EXCEPT ![t].err = r.err, ![t].f = Nil, ![t].pc = "D63"]
              /\ UNCHANGED <<dir, content, nextIno>>
         ELSE /\ th' = [th EXCEPT ![t].f2 = r.ino, ![t].pc = "L79",
                                  ![t].lost = IF "O_TRUNC" \in th[t].flag THEN content[r.ino] ELSE 0,
                                  ![t].made = IF r.created THEN r.ino ELSE 0,
                                  ![t].busy = flock[r.ino] \notin {0, ProcOf(t)}]
              /\ dir' = IF r.created THEN [dir EXCEPT ![Resolve(th[t].name)] = r.ino] ELSE dir
              /\ nextIno' = IF r.created THEN nextIno + 1 ELSE nextIno
              /\ content' = IF r.created \/ {"O_TRUNC", "O_RDWR"} \subseteq th[t].flag
                              THEN [content EXCEPT ![r.ino] = 0]
                              ELSE content
  /\ UNCHANGED <<files, filesMu, flock, handles>>

\* The File value of filelock.go:15-20, with the state of its os.File and of
\* its sync.Once; callers, closer, winner, split and removedAt record the
\* history of the teardown calls on it.
NewFile(t) ==
  [proc |-> ProcOf(t), name |-> th[t].name, absPath |-> th[t].absPath, ino |-> th[t].f2,
   flag |-> th[t].flag, open |-> TRUE, once |-> "fresh", returned |-> FALSE,
   callers |-> {}, closer |-> "none", winner |-> "none", split |-> FALSE, removedAt |-> 0]

\* filelock.go:79-91: ok, err := posixLock(f2.Fd()); on success f = &File{...}.
\* made and busy are kept for the attempt that is refused with ErrLocked.
OpenFile_L79(t) ==
  LET p == ProcOf(t) IN
  /\ th[t].pc = "L79"
  /\ \E errno \in FcntlFlock(p, th[t].f2, th[t].flag) :
       LET r == posixLock(errno) IN
       IF r.err # NoErr
         THEN /\ th' = [th EXCEPT ![t].err = r.err, ![t].f = Nil, ![t].pc = "D75",
                                  ![t].made = 0, ![t].busy = FALSE]
              /\ UNCHANGED <<flock, handles>>
         ELSE IF ~r.ok
           THEN /\ th' = [th EXCEPT ![t].err = ErrLocked, ![t].f = Nil, ![t].pc = "D75"]
                /\ UNCHANGED <<flock, handles>>
           ELSE /\ flock' = [flock EXCEPT ![th[t].f2] = p]
                /\ handles' = Append(handles, NewFile(t))
                /\ th' = [th EXCEPT ![t].f = Len(handles) + 1, ![t].pc = "L93",
                                    ![t].made = 0, ![t].busy = FALSE]
  /\ UNCHANGED <<files, filesMu, dir, content, nextIno>>

\* filelock.go:93-94: filesMu.Lock(); files[absPath] = f.
OpenFile_L93(t) ==
  LET p == ProcOf(t) IN
  /\ th[t].pc = "L93"
  /\ filesMu[p] = "free"
  /\ filesMu' = [filesMu EXCEPT ![p] = t]
  /\ files' = [files EXCEPT ![p] = MapPut(@, th[t].absPath, th[t].f)]
  /\ th' = [th EXCEPT ![t].pc = "L95"]
  /\ UNCHANGED <<dir, content, flock, nextIno, handles>>

\* filelock.go:95-97: filesMu.Unlock(); return f, nil.  Both deferred
\* functions see err == nil and do nothing.
OpenFile_L95(t) ==
  /\ th[t].pc = "L95"
  /\ filesMu' = [filesMu EXCEPT ![ProcOf(t)] = "free"]
  /\ th' = [th EXCEPT ![t] = Result(th[t], NoErr, th[t].f)]
  /\ UNCHANGED <<files, dir, content, flock, nextIno, handles>>

\* The deferred close that also removes the file the attempt created.
OpenFile_D75Remove(t) ==
  /\ th[t].pc = "D75"
  /\ flock' = CloseDesc(ProcOf(t), th[t].f2)
  /\ dir' = [d \in FileIds |-> IF dir[d] = th[t].made THEN 0 ELSE dir[d]]
  /\ th' = [th EXCEPT ![t].f2 = 0, ![t].pc = "D63"]
  /\ UNCHANGED <<files, filesMu, content, nextIno, handles>>
\* filelock.go:73-77, the deferred f2.Close() of a failed attempt.
OpenFile_D75(t) ==
  /\ th[t].pc = "D75"
  /\ flock' = CloseDesc(ProcOf(t), th[t].f2)
  /\ th' = [th EXCEPT ![t].f2 = 0, ![t].pc = "D63"]
  /\ UNCHANGED <<files, filesMu, dir, content, nextIno, handles>>

\* The rollback without the delete of line 64.
OpenFile_D63NoDelete(t) ==
  LET p == ProcOf(t) IN
  /\ th[t].pc = "D63"
  /\ filesMu[p] = "free"
  /\ filesMu' = [filesMu EXCEPT ![p] = t]
  /\ th' = [th EXCEPT ![t].pc = "D65"]
  /\ UNCHANGED <<files, dir, content, flock, nextIno, handles>>
\* filelock.go:61-64, the deferred rollback: filesMu.Lock(); delete(files, absPath).
OpenFile_D63(t) ==
  LET p == ProcOf(t) IN
  /\ th[t].pc = "D63"
  /\ filesMu[p] = "free"
  /\ filesMu' = [filesMu EXCEPT ![p] = t]
  /\ files' = [files EXCEPT ![p] = MapDelete(@, th[t].absPath)]
  /\ th' = [th EXCEPT ![t].pc = "D65"]
  /\ UNCHANGED <<dir, content, flock, nextIno, handles>>

\* filelock.go:65: filesMu.Unlock() of the rollback; the call returns err.
OpenFile_D65(t) ==
  /\ th[t].pc = "D65"
  /\ filesMu' = [filesMu EXCEPT ![ProcOf(t)] = "free"]
  /\ th' = [th EXCEPT ![t] = Result(th[t], th[t].err, Nil)]
  /\ UNCHANGED <<files, dir, content, flock, nextIno, handles>>

\* The caller takes the result of the call: a returned handle becomes
\* usable by the goroutines of its process.
Return(t) ==
  /\ th[t].pc = "ret"
  /\ handles' = IF th[t].op \in {"Open", "Create", "Acquire"} /\ th[t].f # Nil
                  THEN [handles EXCEPT ![th[t].f].returned = TRUE]
                  ELSE handles
  /\ th' = [th EXCEPT ![t] = Idle]
  /\ UNCHANGED <<files, filesMu, dir, content, flock, nextIno>>

(***************************************************************************)
(* Close and Release.                                                      *)
(***************************************************************************)

\* Close or Release may be called by every goroutine of the process the
\* handle was returned to; a goroutine tears a handle down once.  late records
\* that the call began after the teardown of the handle had completed.
EnterTeardown(t, h, op, pc) ==
  /\ th[t].pc = "idle"
  /\ h \in 1..Len(handles)
  /\ handles[h].returned
  /\ handles[h].proc = ProcOf(t)
  /\ t \notin handles[h].callers
  /\ th' = [th EXCEPT ![t] = [Idle EXCEPT !.pc = pc, !.op = op, !.h = h,
                                          !.absPath = handles[h].absPath,
                                          !.late = (handles[h].once = "done")]]
  /\ handles' = [handles EXCEPT ![h].callers = @ \cup {t}]
  /\ UNCHANGED <<files, filesMu, dir, content, flock, nextIno>>

\* A close that leaves the record lock of the process in place.
FileCloseKeepLock(t, h, pc) ==
  IF handles[h].open
    THEN /\ handles' = [handles EXCEPT ![h].open = FALSE, ![h].closer = t]
         /\ flock' = flock
         /\ \E e \in {NoErr, "EIO"} : th' = [th EXCEPT ![t].err = e, ![t].pc = pc]
    ELSE /\ th' = [th EXCEPT ![t].err = ErrClosed, ![t].pc = pc]
         /\ UNCHANGED <<handles, flock>>
\* (*os.File).Close on the descriptor of handle h, called by goroutine t: the
\* first call closes the descriptor, a later call returns os.ErrClosed.
FileClose(t, h, pc) ==
  IF handles[h].open
    THEN /\ handles' = [handles EXCEPT ![h].open = FALSE, ![h].closer = t]
         /\ flock' = CloseDesc(ProcOf(t), handles[h].ino)
         /\ \E e \in {NoErr, "EIO"} : th' = [th EXCEPT ![t].err = e, ![t].pc = pc]
    ELSE /\ th' = [th EXCEPT ![t].err = ErrClosed, ![t].pc = pc]
         /\ UNCHANGED <<handles, flock>>

\* The function run by every call, with no sync.Once around it.
OnceDoAlways(t, h, pc) ==
  /\ handles' = [handles EXCEPT ![h].once = "running", ![h].winner = t]
  /\ th' = [th EXCEPT ![t].pc = pc]
\* f.closeOnce.Do(fn): the first caller runs fn, a caller that arrives while
\* fn runs waits for it, a later caller returns at once.
OnceDo(t, h, pc) ==
  /\ handles[h].once # "running"
  /\ IF handles[h].once = "fresh"
       THEN /\ handles' = [handles EXCEPT ![h].once = "running", ![h].winner = t]
            /\ th' = [th EXCEPT ![t].pc = pc]
       ELSE /\ th' = [th EXCEPT ![t] = Result(th[t], th[t].err, Nil)]
            /\ UNCHANGED handles

\* filesMu.Lock(); delete(files, f.absPath), filelock.go:125-126 and 137-138.
LockDelete(t, h, pc) ==
  LET p == ProcOf(t) IN
  /\ filesMu[p] = "free"
  /\ filesMu' = [filesMu EXCEPT ![p] = t]
  /\ files' = [files EXCEPT ![p] = MapDelete(@, handles[h].absPath)]
  /\ th' = [th EXCEPT ![t].pc = pc]

\* filesMu.Unlock() at the end of the function given to closeOnce.Do; Do
\* returns and the call returns err.
UnlockDone(t, h) ==
  /\ filesMu' = [filesMu EXCEPT ![ProcOf(t)] = "free"]
  /\ handles' = [handles EXCEPT ![h].once = "done", ![h].closer = "none", ![h].winner = "none",
                                ![h].split = (handles[h].closer # handles[h].winner)]
  /\ th' = [th EXCEPT ![t] = Result(th[t], th[t].err, Nil)]

\* Close, filelock.go:122.
Close(t, h) == EnterTeardown(t, h, "Close", "C123")

\* filelock.go:123: err = f.internalFile.Close().
Close_C123(t) ==
  /\ th[t].pc = "C123"
  /\ FileClose(t, th[t].h, "C124")
  /\ UNCHANGED <<files, filesMu, dir, content, nextIno>>

\* filelock.go:124: f.closeOnce.Do(...).
Close_C124(t) ==
  /\ th[t].pc = "C124"
  /\ OnceDo(t, th[t].h, "C125")
  /\ UNCHANGED <<files, filesMu, dir, content, flock, nextIno>>

\* Close without the delete of line 126.
Close_C125NoDelete(t) ==
  /\ th[t].pc = "C125"
  /\ filesMu[ProcOf(t)] = "free"
  /\ filesMu' = [filesMu EXCEPT ![ProcOf(t)] = t]
  /\ th' = [th EXCEPT ![t].pc = "C127"]
  /\ UNCHANGED <<files, dir, content, flock, nextIno, handles>>
\* filelock.go:125-126.
Close_C125(t) ==
  /\ th[t].pc = "C125"
  /\ LockDelete(t, th[t].h, "C127")
  /\ UNCHANGED <<dir, content, flock, nextIno, handles>>

\* filelock.go:127-129.
Close_C127(t) ==
  /\ th[t].pc = "C127"
  /\ UnlockDone(t, th[t].h)
  /\ UNCHANGED <<files, dir, content, flock, nextIno>>

\* Release, filelock.go:133.
Release(t, h) == EnterTeardown(t, h, "Release", "R134")

\* filelock.go:134: f.closeOnce.Do(...).
Release_R134(t) ==
  /\ th[t].pc = "R134"
  /\ OnceDo(t, th[t].h, "R135")
  /\ UNCHANGED <<files, filesMu, dir, content, flock, nextIno>>

\* os.Remove(name): unlinks whatever inode the name designates now.
OsRemove(name) == [dir EXCEPT ![Resolve(name)] = 0]

\* Release without the os.Remove of line 135.
Release_R135NoRemove(t) ==
  /\ th[t].pc = "R135"
  /\ handles' = [handles EXCEPT ![th[t].h].removedAt = nextIno]
  /\ th' = [th EXCEPT ![t].pc = "R136"]
  /\ UNCHANGED <<files, filesMu, dir, content, flock, nextIno>>
\* filelock.go:135: _ = os.Remove(f.name).  removedAt records the inode number
\* the file system hands out next, so that a later file is told from this one.
Release_R135(t) ==
  /\ th[t].pc = "R135"
  /\ dir' = OsRemove(handles[th[t].h].name)
  /\ handles' = [handles EXCEPT ![th[t].h].removedAt = nextIno]
  /\ th' = [th EXCEPT ![t].pc = "R136"]
  /\ UNCHANGED <<files, filesMu, content, flock, nextIno>>

\* filelock.go:136: err = f.internalFile.Close().
Release_R136(t) ==
  /\ th[t].pc = "R136"
  /\ FileClose(t, th[t].h, "R137")
  /\ UNCHANGED <<files, filesMu, dir, content, nextIno>>

\* filelock.go:137-138.
Release_R137(t) ==
  /\ th[t].pc = "R137"
  /\ LockDelete(t, th[t].h, "R139")
  /\ UNCHANGED <<dir, content, flock, nextIno, handles>>

\* filelock.go:139-141.
Release_R139(t) ==
  /\ th[t].pc = "R139"
  /\ UnlockDone(t, th[t].h)
  /\ UNCHANGED <<files, dir, content, flock, nextIno>>

TeardownStep(t) ==
  \/ Close_C123(t) \/ Close_C124(t) \/ Close_C125(t) \/ Close_C127(t)
  \/ Release_R134(t) \/ Release_R135(t) \/ Release_R136(t)
  \/ Release_R137(t) \/ Release_R139(t)

OpenStep(t) ==
  \/ OpenFile_L54(t) \/ OpenFile_L56(t) \/ OpenFile_L60(t)
  \/ OpenFile_L69(t) \/ OpenFile_L79(t) \/ OpenFile_L93(t)
  \/ OpenFile_L95(t) \/ OpenFile_D75(t) \/ OpenFile_D63(t) \/ OpenFile_D65(t)

Step(t) ==
  \/ \E n \in NamesOf(t) : Create(t, n) \/ (t \in Readers /\ Open(t, n))
  \/ OpenStep(t)
  \/ \E h \in 1..Len(handles) : Close(t, h) \/ Release(t, h)
  \/ TeardownStep(t)
  \/ Return(t)

\* Two goroutines of one process.
Next == \E t \in {"t1", "t2"} : Step(t)
Spec == Init /\ [][Next]_vars

\* One goroutine in each of two processes.
NextCross == \E t \in {"t1", "t3"} : Step(t)
SpecCross == Init /\ [][NextCross]_vars

(***************************************************************************)
(* Acquire, and the write passthrough of a handle.                         *)
(***************************************************************************)

\* Acquire, filelock.go:101-102: the first attempt, f, err := Create(name,
\* perm), made whatever the state of ctx is.  pre records a context that was
\* cancelled before the call.
Acquire(t, name) ==
  /\ CanCall(t)
  /\ \E c \in BOOLEAN :
       Attempt(t, [Idle EXCEPT !.op = "Acquire", !.name = name, !.flag = CreateFlags,
                               !.ctxDone = c, !.pre = c])

\* A select that waits on a context of its own, never cancelled.
AtSelectNoCtx(fr) ==
  [Idle EXCEPT !.pc = "A109", !.op = "Acquire", !.name = fr.name, !.flag = fr.flag,
               !.err = fr.err, !.ctxDone = FALSE, !.pre = fr.pre,
               !.retried = fr.retried]
\* The frame of Acquire at its select: the locals of the last attempt are
\* dead.
AtSelect(fr) ==
  [Idle EXCEPT !.pc = "A109", !.op = "Acquire", !.name = fr.name, !.flag = fr.flag,
               !.err = fr.err, !.ctxDone = fr.ctxDone, !.pre = fr.pre,
               !.retried = fr.retried]

\* Acquire that goes on polling after every attempt that gave no handle.
Acquire_A103RetryErrors(t) ==
  /\ th[t].pc = "A103"
  /\ IF th[t].f # Nil
       THEN th' = [th EXCEPT ![t] = Returned(th[t], th[t].err, th[t].f)]
       ELSE th' = [th EXCEPT ![t] = AtSelect(th[t])]
  /\ UNCHANGED <<files, filesMu, dir, content, flock, nextIno, handles>>
\* filelock.go:103-107 and 114-116: if err != ErrLocked { return f, err };
\* otherwise the ticker is made, on the first pass, and the loop goes to its
\* select.
Acquire_A103(t) ==
  /\ th[t].pc = "A103"
  /\ IF th[t].err # ErrLocked
       THEN th' = [th EXCEPT ![t] = Returned(th[t], th[t].err, th[t].f)]
       ELSE th' = [th EXCEPT ![t] = AtSelect(th[t])]
  /\ UNCHANGED <<files, filesMu, dir, content, flock, nextIno, handles>>

\* The select whose cancellation case returns the error of the last attempt.
Acquire_A110LastErr(t) ==
  /\ th[t].pc = "A109"
  /\ th[t].ctxDone
  /\ th' = [th EXCEPT ![t] = Returned(th[t], th[t].err, Nil)]
  /\ UNCHANGED <<files, filesMu, dir, content, flock, nextIno, handles>>
\* filelock.go:109-111: case <-ctx.Done(): return nil, ctx.Err().
Acquire_A110(t) ==
  /\ th[t].pc = "A109"
  /\ th[t].ctxDone
  /\ th' = [th EXCEPT ![t] = Returned(th[t], Canceled, Nil)]
  /\ UNCHANGED <<files, filesMu, dir, content, flock, nextIno, handles>>

\* filelock.go:109, 112-113: case <-tkr.C: f, err = Create(name, perm).
Acquire_A112(t) ==
  /\ th[t].pc = "A109"
  /\ th[t].tick
  /\ Attempt(t, [th[t] EXCEPT !.tick = FALSE, !.retried = TRUE])

\* The context of a running Acquire is cancelled by its owner.
Cancel(t) ==
  /\ th[t].op = "Acquire"
  /\ th[t].pc \in OpenPcs \cup AcquirePcs
  /\ ~th[t].ctxDone
  /\ th' = [th EXCEPT ![t].ctxDone = TRUE]
  /\ UNCHANGED <<files, filesMu, dir, content, flock, nextIno, handles>>

\* The period of the ticker of filelock.go:106 elapses: its channel, of
\* capacity one and read only by the select, holds a tick.
Tick(t) ==
  /\ th[t].pc = "A109"
  /\ ~th[t].tick
  /\ th' = [th EXCEPT ![t].tick = TRUE]
  /\ UNCHANGED <<files, filesMu, dir, content, flock, nextIno, handles>>

\* Write on a handle, the method of the embedded *os.File (filelock.go:16,
\* 22): the file of the descriptor holds data.
Write(t, h) ==
  /\ th[t].pc = "idle"
  /\ handles[h].proc = ProcOf(t)
  /\ handles[h].returned
  /\ handles[h].open
  /\ "O_RDWR" \in handles[h].flag
  /\ content[handles[h].ino] = 0
  /\ content' = [content EXCEPT ![handles[h].ino] = 1]
  /\ UNCHANGED <<files, filesMu, dir, flock, nextIno, handles, th>>

AcquireStep(t) == Acquire_A103(t) \/ Acquire_A110(t) \/ Acquire_A112(t)

\* The goroutine that holds the lock: it takes it with Create and gives it up
\* with Close or Release.
HolderStep ==
  \/ \E n \in NamesOf(Holder) : Create(Holder, n)
  \/ OpenStep(Holder)
  \/ \E h \in 1..Len(handles) : Close(Holder, h) \/ Release(Holder, h)
  \/ TeardownStep(Holder)
  \/ Return(Holder)

\* The goroutine of another process that waits for the lock with Acquire.
WaitStep ==
  \/ \E n \in NamesOf(Waiter) : Acquire(Waiter, n)
  \/ AcquireStep(Waiter)
  \/ OpenStep(Waiter)
  \/ Cancel(Waiter)
  \/ Tick(Waiter)
  \/ Return(Waiter)

\* A holder in one process, a waiter in another.
NextWait == HolderStep \/ WaitStep
SpecWait == Init /\ [][NextWait]_vars

\* The waiter's goroutine keeps running, and a select that finds ctx.Done()
\* ready again and again takes that case in the end: Go's select chooses
\* among its ready cases at random.
SpecWaitFair ==
  /\ SpecWait
  /\ WF_vars(AcquireStep(Waiter) \/ OpenStep(Waiter))
  /\ SF_vars(Acquire_A110(Waiter))

\* The holder also writes to its file, and the other process also calls
\* Create.
NextWrite ==
  \/ NextWait
  \/ \E h \in 1..Len(handles) : Write(Holder, h)
  \/ \E n \in NamesOf(Waiter) : Create(Waiter, n)
SpecWrite == Init /\ [][NextWrite]_vars

(***************************************************************************)
(* Properties.                                                             *)
(***************************************************************************)
HandleIds == 1..Len(handles)
FileOf(h) == Resolve(handles[h].name)
OpenOps == {"Open", "Create"}
AtRet(t) == th[t].pc = "ret"

\* A handle that exists and whose teardown has not completed.
NotTornDown(h) == handles[h].once # "done"

\* A handle its caller holds: returned, descriptor open, no teardown call begun.
Held(h) ==
  /\ handles[h].returned
  /\ handles[h].open
  /\ handles[h].once = "fresh"
  /\ handles[h].callers = {}

\* C1: in one process no two handles on the same path exist at once that
\* have not been torn down, in every interleaving of open, Close and Release.
C1_OneHandlePerPath ==
  \A h1, h2 \in HandleIds :
    (/\ h1 # h2
     /\ handles[h1].proc = handles[h2].proc
     /\ FileOf(h1) = FileOf(h2)
     /\ NotTornDown(h1))
    => ~NotTornDown(h2)

\* C1 witness: a second handle on the path is live after the first was torn
\* down, the two opened under different spellings of the path.
C1_Witness ==
  \E h1, h2 \in HandleIds :
    /\ h1 # h2
    /\ handles[h1].proc = handles[h2].proc
    /\ FileOf(h1) = FileOf(h2)
    /\ handles[h1].name # handles[h2].name
    /\ handles[h1].once = "done"
    /\ Held(h2)

\* C2: no two processes hold a live handle for the same path at once.
C2_CrossProcessExclusion ==
  \A h1, h2 \in HandleIds :
    (/\ handles[h1].proc # handles[h2].proc
     /\ FileOf(h1) = FileOf(h2)
     /\ Held(h1))
    => ~Held(h2)

\* C3: while the registry of the process has an entry for the path, a live
\* handle or the placeholder of another attempt, an open call on the path
\* returns ErrLocked without a file system call and changes nothing.
C3_Blocked ==
  /\ [](/\ \A h \in HandleIds :
             Held(h) =>
               /\ MapHas(files[handles[h].proc], Abs(handles[h].name))
               /\ files[handles[h].proc][Abs(handles[h].name)] = h
        /\ \A t \in Threads :
             th[t].ok =>
               /\ th[t].pc \in {"L56", "ret"}
               /\ th[t].f2 = 0 /\ th[t].f = Nil
               /\ AtRet(t) => th[t].err = ErrLocked)
  /\ [][\A t \in Threads :
          /\ (/\ th[t].pc = "L54" /\ th'[t].pc # "L54"
              /\ MapHas(files[ProcOf(t)], Abs(th[t].name)))
             => th'[t].ok
          /\ (th'[t].ok /\ th'[t] # th[t])
             => /\ files' = files /\ handles' = handles
                /\ dir' = dir /\ content' = content /\ flock' = flock]_vars

\* C3 witness: a call has returned ErrLocked from the registry check while
\* another goroutine of the process holds the placeholder, between its
\* os.OpenFile and its store of the handle.
C3_Witness ==
  \E t, u \in Threads :
    /\ t # u /\ ProcOf(t) = ProcOf(u)
    /\ AtRet(t) /\ th[t].op \in OpenOps /\ th[t].ok /\ th[t].err = ErrLocked
    /\ th[u].pc \in {"L69", "L79"}
    /\ files[ProcOf(u)][th[u].absPath] = Nil

\* The goroutines of process 1, the process with several goroutines.
Siblings == {t \in Threads : ProcOf(t) = 1}

\* Every goroutine of the process has returned from an open call on the one
\* path, none hit an OS failure or a lock of another process, and no handle
\* returned earlier is still live.
C4_AllReturned ==
  /\ \A t \in Siblings :
       /\ AtRet(t) /\ th[t].op \in OpenOps
       /\ \/ th[t].err = NoErr
          \/ th[t].err = ErrLocked /\ th[t].ok
  /\ \A h \in HandleIds :
       (handles[h].proc = 1 /\ handles[h].returned) => handles[h].once = "done"

\* C4: of the concurrent open calls of the goroutines of one process on one
\* path, exactly one returns a handle, the others return ErrLocked, and the
\* registry then holds exactly one entry, the path mapped to that handle.
C4_ExactlyOneWinner ==
  C4_AllReturned =>
    \E w \in Siblings :
      /\ th[w].f # Nil /\ th[w].err = NoErr
      /\ \A t \in Siblings \ {w} : th[t].f = Nil /\ th[t].err = ErrLocked
      /\ DOMAIN files[1] = {th[w].absPath}
      /\ files[1][th[w].absPath] = th[w].f

\* C4 witness: both calls have returned, one with a handle, one with ErrLocked.
C4_Witness ==
  /\ C4_AllReturned
  /\ \E w, l \in Siblings : th[w].f # Nil /\ th[l].err = ErrLocked

\* C5: when Close has returned the handle is torn down, its descriptor is
\* closed and the registry no longer maps the path to it; the registry never
\* maps a path to a torn-down handle, so that handle never makes a later
\* open in the process fail with ErrLocked, and the process keeps no lock on
\* the inode unless it has another descriptor open on it.
C5_ClosedHandleGone ==
  /\ [](/\ \A t \in Threads :
             (AtRet(t) /\ th[t].op = "Close") => handles[th[t].h].once = "done"
        /\ \A h \in HandleIds :
             handles[h].once = "done" =>
               /\ ~handles[h].open
               /\ \A k \in DOMAIN files[handles[h].proc] : files[handles[h].proc][k] # h
        /\ \A h \in HandleIds :
             (~handles[h].open /\ flock[handles[h].ino] = handles[h].proc) =>
               \/ \E g \in HandleIds : /\ handles[g].open /\ handles[g].ino = handles[h].ino
                                       /\ handles[g].proc = handles[h].proc
               \/ \E t \in Threads : /\ ProcOf(t) = handles[h].proc
                                     /\ th[t].f2 = handles[h].ino
                                     /\ th[t].pc \in {"L93", "L95", "ret"})
  /\ [][\A t \in Threads :
          (th[t].pc = "L54" /\ th'[t].ok) =>
            LET e == files[ProcOf(t)][th[t].absPath] IN
            e = Nil \/ handles[e].once # "done"]_vars

\* C5 witness: Create has returned a handle on a path whose earlier handle in
\* the same process was torn down by Close.
C5_Witness ==
  \E t \in Threads, h \in HandleIds :
    /\ AtRet(t) /\ th[t].op = "Create" /\ th[t].f # Nil /\ th[t].f # h
    /\ handles[h].proc = ProcOf(t)
    /\ FileOf(h) = FileOf(th[t].f)
    /\ handles[h].once = "done" /\ handles[h].removedAt = 0

\* C6: the teardown of a handle is the work of one call: the call that
\* closes the descriptor is the call that runs the function of closeOnce, and
\* every other call leaves the descriptor alone.
C6_OneCallTearsDown ==
  \A h \in HandleIds :
    /\ ~handles[h].split
    /\ (handles[h].closer # "none" /\ handles[h].winner # "none")
       => handles[h].closer = handles[h].winner

\* C7: a Close or Release called on a handle after an earlier teardown call
\* on it has completed returns nil.
C7_LaterCallsReturnNil ==
  \A t \in Threads :
    (AtRet(t) /\ th[t].op \in {"Close", "Release"} /\ th[t].late) => th[t].err = NoErr

\* C8: an open call that returns an error after its registry check returns
\* no handle, has closed the descriptor it opened and, at the moment it
\* returns, has removed the placeholder it inserted.
C8_FailedOpenRollsBack ==
  [][\A t \in Threads :
       (/\ th[t].pc \in OpenPcs /\ th'[t].pc = "ret"
        /\ th'[t].err # NoErr)
       => /\ th'[t].f = Nil
          /\ th'[t].f2 = 0
          /\ ~th'[t].ok => ~MapHas(files'[ProcOf(t)], th'[t].absPath)]_vars

\* C8 witness: an open call has returned ErrLocked because another process
\* holds the OS lock, after it had inserted a placeholder and opened the file.
C8_Witness ==
  \E t \in Threads :
    /\ AtRet(t) /\ th[t].op \in OpenOps
    /\ th[t].err = ErrLocked /\ ~th[t].ok
    /\ th[t].f2 = 0
    /\ ~MapHas(files[ProcOf(t)], th[t].absPath)

CreateOpens(t) == th[t].pc = "L69" /\ th[t].op = "Create" /\ th'[t].pc # "L69"

\* C10, as stated: Create on an existing path that nobody has locked opens
\* it and leaves its contents unchanged.
C10_NoTruncation ==
  [][\A t \in Threads :
       LET i == dir[Resolve(th[t].name)] IN
       (CreateOpens(t) /\ i # 0 /\ flock[i] = 0)
       => th'[t].f2 = i /\ content' = content]_vars

\* C10, amended: Create on an existing path opens it and truncates it to
\* empty; on a path that does not exist it creates an empty file there when
\* the file system has room; in both cases the lock call does not report
\* contention when nobody holds the lock, and a returned handle is open for
\* writing.
C10_Truncates ==
  /\ [][\A t \in Threads :
          LET d == Resolve(th[t].name) IN
          /\ (CreateOpens(t) /\ dir[d] # 0)
             => /\ th'[t].f2 = dir[d] /\ dir' = dir
                /\ content'[dir[d]] = 0
          /\ (CreateOpens(t) /\ dir[d] = 0 /\ nextIno <= MaxInodes)
             => /\ th'[t].f2 = nextIno /\ dir'[d] = nextIno
                /\ content'[nextIno] = 0
          /\ (/\ th[t].pc = "L79" /\ th[t].op = "Create" /\ th'[t].pc # "L79"
              /\ flock[th[t].f2] = 0)
             => th'[t].err # ErrLocked]_vars
  /\ [](\A t \in Threads :
          (AtRet(t) /\ th[t].op = "Create" /\ th[t].f # Nil)
          => /\ "O_RDWR" \in handles[th[t].f].flag
             /\ handles[th[t].f].ino = th[t].f2)

\* C10 witness: Create has returned a handle on a file that held data when
\* the call opened it.
C10_Witness ==
  \E t \in Threads :
    /\ AtRet(t) /\ th[t].op = "Create" /\ th[t].f # Nil /\ th[t].err = NoErr
    /\ th[t].lost = 1

\* C10 witness, second case: Create has returned a handle on a file it created.
C10_WitnessCreated ==
  \E t \in Threads :
    /\ AtRet(t) /\ th[t].op = "Create" /\ th[t].f # Nil
    /\ dir[FileOf(th[t].f)] = handles[th[t].f].ino
    /\ handles[th[t].f].ino = nextIno - 1 /\ th[t].lost = 0

\* A Create that made the file and was then refused the lock another
\* process holds on it.
CreatedAndRefused(t) ==
  /\ AtRet(t) /\ th[t].op = "Create"
  /\ th[t].err = ErrLocked /\ ~th[t].ok
  /\ th[t].made # 0

\* C11, as claimed: when Create has made a new file and is then refused the
\* lock because it is held, the file it made is gone when Create returns
\* ErrLocked.
C11_CreatedFileRemoved ==
  \A t \in Threads : CreatedAndRefused(t) => \A d \in FileIds : dir[d] # th[t].made

\* C11, amended: a Create that is refused the lock removes nothing; from the
\* lock attempt to its return the directory is as the attempt found it, so
\* the file it made stays on disk.
C11_CreatedFileLeft ==
  [][\A t \in Threads :
       (/\ th[t].op = "Create"
        /\ th[t].pc \in {"L79", "D75", "D63", "D65"}
        /\ th'[t] # th[t])
       => dir' = dir]_vars

\* C11 witness: Create has returned ErrLocked for a file it made, and the
\* file is on disk, locked by the other process.
C11_Witness ==
  \E t \in Threads :
    /\ CreatedAndRefused(t)
    /\ \E d \in FileIds : dir[d] = th[t].made
    /\ flock[th[t].made] \notin {0, ProcOf(t)}

\* The step of Acquire that takes the outcome of an attempt.
TakesOutcome(t) == th[t].pc = "A103" /\ th'[t].pc # "A103"

\* C12: the first attempt of Acquire whose outcome is not ErrLocked ends the
\* call: Acquire returns exactly that handle or that error and makes no
\* further attempt, so a fatal error is never retried; only ErrLocked sends
\* Acquire to its select.
C12_FirstOutcomeEnds ==
  [][\A t \in Threads :
       TakesOutcome(t) =>
         IF th[t].err # ErrLocked
           THEN /\ th'[t].pc = "ret"
                /\ th'[t].f = th[t].f
                /\ th'[t].err = th[t].err
                /\ (th[t].f = Nil) = (th[t].err # NoErr)
           ELSE th'[t].pc = "A109" /\ th[t].f = Nil]_vars

\* C12 witness: after a wait, a retry of Acquire failed with a fatal error of
\* the lock call and Acquire has returned that error.
C12_Witness ==
  \E t \in Threads :
    /\ AtRet(t) /\ th[t].op = "Acquire" /\ th[t].retried
    /\ th[t].f = Nil /\ th[t].err = LockError("ENOLCK")

\* The path Acquire polls is locked against the waiter: its own process has
\* a handle registered for it, or another process holds the lock of the file.
LockedFor(t) ==
  LET p == ProcOf(t)
      k == Abs(th[t].name)
      d == Resolve(th[t].name)
  IN  \/ k \in DOMAIN files[p] /\ files[p][k] # Nil
      \/ dir[d] # 0 /\ flock[dir[d]] \notin {0, p}

\* Acquire is at its select and its context is cancelled.
WaitingCancelled(t) == th[t].pc = "A109" /\ th[t].ctxDone

\* Acquire has returned the cancellation error and no handle.
ReturnedCanceled(t) ==
  /\ AtRet(t) /\ th[t].op = "Acquire"
  /\ th[t].err = Canceled /\ th[t].f = Nil

\* C13: when the context is cancelled while Acquire waits in its polling
\* loop, Acquire returns in the end, whatever ticks arrive, and on a path
\* that stays locked what it returns is the cancellation error, never a
\* handle and never ErrLocked; the cancellation case of the select returns
\* exactly that error.
C13_CancelEndsWait ==
  /\ [][\A t \in Threads :
          (th[t].pc = "A109" /\ th'[t].pc = "ret") =>
            (th[t].ctxDone /\ th'[t].err = Canceled /\ th'[t].f = Nil)]_vars
  /\ WaitingCancelled(Waiter) ~>
       (\/ ReturnedCanceled(Waiter)
        \/ th[Waiter].op = "Acquire" /\ ~AtRet(Waiter) /\ ~LockedFor(Waiter))

\* C13 witness: the context was cancelled during the wait, after a tick had
\* already led to a retry, and Acquire has returned the cancellation error
\* while the other process still holds the lock.
C13_Witness ==
  /\ ReturnedCanceled(Waiter)
  /\ th[Waiter].retried /\ ~th[Waiter].pre
  /\ \E h \in HandleIds : handles[h].proc # ProcOf(Waiter) /\ Held(h)

\* Acquire was called with a context that was cancelled before the call.
PreCancelled(t) == th[t].op = "Acquire" /\ th[t].pre

\* C14, as claimed: Acquire called with a context cancelled before the call
\* returns the cancellation error.
C14_PreCancelledReturnsCanceled ==
  \A t \in Threads : (AtRet(t) /\ PreCancelled(t)) => th[t].err = Canceled

\* C14, amended: Acquire called with a context cancelled before the call
\* makes its first attempt all the same and returns its handle or fatal
\* error; when the attempt gives ErrLocked it reaches the select with the
\* cancellation case ready, so it never blocks on the timer, and what it
\* returns is the cancellation error or the outcome, not ErrLocked, of a
\* retry for a tick that was pending.
C14_PreCancelledNeverBlocks ==
  \A t \in Threads :
    PreCancelled(t) =>
      /\ th[t].ctxDone
      /\ th[t].pc = "A109" => ENABLED Acquire_A110(t)
      /\ AtRet(t) =>
            \/ th[t].err = Canceled /\ th[t].f = Nil
            \/ th[t].err = NoErr /\ th[t].f # Nil
            \/ th[t].err \notin {NoErr, Canceled, ErrLocked} /\ th[t].f = Nil

\* C14 witness: called with a cancelled context on a locked path, Acquire
\* has returned the cancellation error without a retry.
C14_Witness ==
  \E t \in Threads :
    /\ ReturnedCanceled(t) /\ th[t].pre /\ ~th[t].retried
    /\ \E h \in HandleIds : handles[h].proc # ProcOf(t) /\ Held(h)

\* A retry of Acquire: an attempt begun by a tick.
Retrying(t) == th[t].op = "Acquire" /\ th[t].retried /\ th[t].pc \in OpenPcs

\* C15: once the holder has closed or released its handle the lock is free,
\* for a process keeps a lock only through an open descriptor of a handle;
\* the retry that Acquire makes at a tick, when it finds no handle of its own
\* process registered and no other process holding the lock of the file it
\* opened, is not sent back to wait: it gets the lock and returns a handle on
\* the path, short of a fatal error of the lock call.
C15_RetryAfterReleaseSucceeds ==
  /\ [](\A i \in Inodes :
          flock[i] # 0 =>
            \E h \in HandleIds :
              handles[h].proc = flock[i] /\ handles[h].ino = i /\ handles[h].open)
  /\ [][\A t \in Threads :
          /\ (Retrying(t) /\ th[t].pc = "L54" /\ th'[t].pc # "L54" /\ ~LockedFor(t))
               => th'[t].pc = "L60"
          /\ (Retrying(t) /\ th[t].pc = "L79" /\ th'[t].pc # "L79"
                /\ flock[th[t].f2] \in {0, ProcOf(t)})
               => \/ /\ th'[t].pc = "L93"
                     /\ handles'[th'[t].f].ino = th[t].f2
                     /\ flock'[th[t].f2] = ProcOf(t)
                  \/ th'[t].pc = "D75" /\ th'[t].err \notin {NoErr, ErrLocked}
          /\ (Retrying(t) /\ th[t].pc = "L95" /\ th'[t].pc # "L95")
               => (th'[t].pc = "A103" /\ th'[t].err = NoErr /\ th'[t].f = th[t].f)]_vars

\* C15 witness: Acquire waited while the other process held the lock, the
\* holder tore its handle down, and Acquire, its context not cancelled, has
\* returned a handle from a retry.
C15_Witness ==
  \E t \in Threads :
    /\ AtRet(t) /\ th[t].op = "Acquire" /\ th[t].retried /\ ~th[t].ctxDone
    /\ th[t].f # Nil /\ th[t].err = NoErr
    /\ flock[handles[th[t].f].ino] = ProcOf(t)
    /\ \E h \in HandleIds :
         /\ h < th[t].f
         /\ handles[h].proc # ProcOf(t)
         /\ handles[h].once = "done"

\* The places where a goroutine is inside os.OpenFile, posixLock, a close of
\* a descriptor, os.Remove, or the select of Acquire; and the places between
\* filesMu.Lock() and filesMu.Unlock().
SlowPcs == {"L69", "L79", "D75", "C123", "R135", "R136", "A109"}
CriticalPcs == {"L56", "L60", "L95", "D65", "C127", "R139"}

\* C16: the registry mutex is never held by a goroutine that is inside
\* os.OpenFile, posixLock, a descriptor close, os.Remove or the select of
\* Acquire: whoever holds it is between a Lock and the Unlock that follows
\* the map operation.
C16_NoLockAcrossIO ==
  /\ \A t \in Threads : th[t].pc \in SlowPcs => \A p \in Procs : filesMu[p] # t
  /\ \A p \in Procs :
       filesMu[p] # "free" =>
         /\ filesMu[p] \in Threads
         /\ ProcOf(filesMu[p]) = p
         /\ th[filesMu[p]].pc \in CriticalPcs

\* C16 witness: Acquire is blocked in its select, no tick and no
\* cancellation, the holder is inside os.Remove, and both mutexes are free.
C16_Witness ==
  /\ th[Waiter].pc = "A109" /\ ~th[Waiter].tick /\ ~th[Waiter].ctxDone
  /\ th[Holder].pc = "R135"
  /\ \A p \in Procs : filesMu[p] = "free"

\* The keys of the registry, and the owners of a key in a process: the
\* attempts that hold its placeholder, from the insert of line 59 to the
\* delete of line 64, and the handles made for it whose teardown has not
\* yet deleted the entry.
Keys == {Abs(n) : n \in Names}
AttemptOwners(p, k) ==
  {t \in Threads : /\ ProcOf(t) = p
                   /\ th[t].absPath = k
                   /\ th[t].pc \in {"L60", "L69", "L79", "D75", "D63"}}
Deleted(h) ==
  \/ handles[h].once = "done"
  \/ \E t \in Threads : th[t].h = h /\ th[t].pc \in {"C127", "R139"}
HandleOwners(p, k) ==
  {h \in HandleIds : handles[h].proc = p /\ handles[h].absPath = k /\ ~Deleted(h)}
\* The handle is stored in the registry: its attempt is past line 94.
Stored(h) == ~\E t \in Threads : th[t].f = h /\ th[t].pc = "L93"

\* C17: every key of the registry has exactly one owner, an attempt in
\* progress or a handle whose teardown has not removed it, and a key without
\* an owner is absent; the entry holds the owning handle once it is stored
\* and the nil placeholder before; a teardown deletes only the entry of its
\* own handle, so Close or Release on a handle already torn down removes
\* nothing of a later attempt or handle; with no attempt in progress and
\* every handle torn down the registry is empty.
C17_RegistryOwnership ==
  /\ [](\A p \in Procs :
          /\ DOMAIN files[p] \subseteq Keys
          /\ \A k \in Keys :
               /\ Cardinality(AttemptOwners(p, k)) + Cardinality(HandleOwners(p, k))
                    = IF MapHas(files[p], k) THEN 1 ELSE 0
               /\ \A h \in HandleOwners(p, k) :
                    files[p][k] = IF Stored(h) THEN h ELSE Nil
               /\ AttemptOwners(p, k) # {} => files[p][k] = Nil
          /\ ((\A t \in Threads : ProcOf(t) = p => th[t].pc \notin OpenPcs)
               /\ (\A h \in HandleIds : handles[h].proc = p => handles[h].once = "done"))
               => files[p] = <<>>)
  /\ [][\A t \in Threads :
          (th[t].pc \in {"C125", "R137"} /\ th'[t].pc \in {"C127", "R139"})
            => /\ MapHas(files[ProcOf(t)], th[t].absPath)
               /\ files[ProcOf(t)][th[t].absPath] = th[t].h
               /\ files'[ProcOf(t)] = MapDelete(files[ProcOf(t)], th[t].absPath)]_vars

\* C17 witness: a Close or Release called on a handle whose teardown was
\* complete has returned, and the entry of a later handle on the same path
\* is still in the registry.
C17_Witness ==
  \E t \in Threads :
    /\ AtRet(t) /\ th[t].op \in {"Close", "Release"} /\ th[t].late
    /\ \E h \in HandleIds :
         /\ h > th[t].h
         /\ handles[h].proc = ProcOf(t)
         /\ handles[h].absPath = handles[th[t].h].absPath
         /\ MapHas(files[ProcOf(t)], handles[h].absPath)
         /\ files[ProcOf(t)][handles[h].absPath] = h

\* A Create that was refused the lock another process holds on the file.
RefusedByOtherProcess(t) ==
  /\ AtRet(t) /\ th[t].op = "Create"
  /\ th[t].err = ErrLocked /\ ~th[t].ok
  /\ th[t].busy

\* C18: a Create that fails with ErrLocked because another process holds
\* the lock of the file has discarded no data of the file: it never
\* truncates a file it could not lock.
C18_RefusedCreateKeepsData ==
  \A t \in Threads : RefusedByOtherProcess(t) => th[t].lost = 0

\* C19: Acquire never returns ErrLocked: what it returns is a handle, a fatal
\* error or the cancellation error of a cancelled context; an attempt that
\* gives ErrLocked sends it back to its select, however many attempts came
\* before, so that it returns only through an attempt with another outcome
\* or through the cancellation case.
C19_NeverReturnsLocked ==
  /\ [](\A t \in Threads :
          (AtRet(t) /\ th[t].op = "Acquire") =>
            \/ th[t].f # Nil /\ th[t].err = NoErr
            \/ th[t].f = Nil /\ th[t].err = Canceled /\ th[t].ctxDone
            \/ th[t].f = Nil /\ th[t].err \notin {NoErr, Canceled, ErrLocked})
  /\ [][\A t \in Threads :
          /\ (th[t].op = "Acquire" /\ ~AtRet(t) /\ th'[t].pc = "ret")
               => \/ th[t].pc = "A103" /\ th[t].err # ErrLocked
                  \/ th[t].pc = "A109" /\ th[t].ctxDone
          /\ (TakesOutcome(t) /\ th[t].err = ErrLocked)
               => th'[t].pc = "A109"]_vars

\* C19 witness: a retry of Acquire was refused again, and Acquire is back
\* at its select, its context not cancelled, the path still locked.
C19_Witness ==
  \E t \in Threads :
    /\ th[t].pc = "A109" /\ th[t].retried /\ ~th[t].ctxDone
    /\ th[t].err = ErrLocked
    /\ LockedFor(t)

\* The step of OpenFile that calls posixLock.
LockStep(t) == th[t].pc = "L79" /\ th'[t].pc # "L79"
\* The errors posixLock wraps: every errno of fcntl but EWOULDBLOCK.
FatalLockErrors == {LockError(e) : e \in {"EBADF", "ENOLCK"}}

\* C20: posixLock and OpenFile give the result of the lock call exactly
\* three outcomes.  Granted: the process has the lock and OpenFile goes on
\* to return a handle on the descriptor.  Refused because another process
\* holds the lock: OpenFile rolls back and returns ErrLocked, the error it
\* also returns for an entry of the registry.  Any other failure: OpenFile
\* rolls back and returns the errno wrapped in a LockError that is not
\* ErrLocked.
C20_ThreeLockOutcomes ==
  /\ [][\A t \in Threads :
          LockStep(t) =>
            LET p == ProcOf(t)
                i == th[t].f2
                refused == "O_RDWR" \in th[t].flag /\ flock[i] \notin {0, p}
            IN  \/ /\ th'[t].pc = "L93" /\ ~refused
                   /\ flock'[i] = p
                   /\ handles'[th'[t].f].ino = i /\ handles'[th'[t].f].open
                \/ /\ th'[t].pc = "D75" /\ refused
                   /\ th'[t].err = ErrLocked /\ th'[t].f = Nil
                   /\ flock' = flock /\ handles' = handles
                \/ /\ th'[t].pc = "D75" /\ ~refused
                   /\ th'[t].err \in FatalLockErrors /\ th'[t].err # ErrLocked
                   /\ th'[t].f = Nil
                   /\ flock' = flock /\ handles' = handles]_vars
  /\ [](\A t \in Threads :
          (AtRet(t) /\ th[t].op \in OpenOps) =>
            /\ th[t].ok => th[t].err = ErrLocked
            /\ th[t].err = NoErr =>
                 (th[t].f # Nil /\ files[ProcOf(t)][th[t].absPath] = th[t].f)
            /\ th[t].err # NoErr =>
                 (th[t].f = Nil /\ th[t].f2 = 0
                  /\ (~th[t].ok => ~MapHas(files[ProcOf(t)], th[t].absPath))))

\* C20 witness: the lock call of a Create failed with ENOLCK, and Create has
\* returned the wrapped error after closing the descriptor and removing its
\* entry from the registry.
C20_Witness ==
  \E t \in Threads :
    /\ AtRet(t) /\ th[t].op = "Create"
    /\ th[t].err = LockError("ENOLCK") /\ th[t].f = Nil /\ th[t].f2 = 0
    /\ ~MapHas(files[ProcOf(t)], th[t].absPath)

=============================================================================
